---- MODULE Spec2Model ----
(***************************************************************************)
(* A model of the rule-based Hindi morphology analyzer (HindiMorphAnalyzer *)
(* in hindi_morph_analyzer.py): the rule store, the lexicon, the affix     *)
(* stripper, the sandhi resolver, the analysis pipeline, and rule load and  *)
(* save through a JSON rule file.                                           *)
(*                                                                         *)
(* A Python str is a sequence of code points; every code point is written  *)
(* here as a short ASCII name ("k" is KA, "_aa" is VOWEL SIGN AA, "A" is    *)
(* LETTER A, ...).  len(), slicing, startswith and endswith work on code    *)
(* points, exactly as the Python built-ins do.                              *)
(*                                                                         *)
(* A Python dict is a function wrapped as dict(f); a table that holds None  *)
(* (a JSON null loaded from a rule file) is the value None.  The feature    *)
(* maps of the rules and the lexicon entries are records.                   *)
(***************************************************************************)
EXTENDS Integers, Sequences, FiniteSets, TLC

VARIABLES
    suffix_rules,   \* self.suffix_rules
    prefix_rules,   \* self.prefix_rules
    sandhi_rules,   \* self.sandhi_rules
    exceptions,     \* self.exceptions
    dictionary,     \* self.dictionary
    files,          \* the rule files on disk: path -> content
    call,           \* the method call that has just returned to the caller, or NoCall
    outcome,        \* what that call returned or raised
    saved,          \* the last save_rules call, while nothing else has been called since
    threads,        \* where a load_rules and an analyze running on two threads are
    written         \* the write the caller has made into a result it was given

vars == <<suffix_rules, prefix_rules, sandhi_rules, exceptions, dictionary,
          files, call, outcome, saved, threads, written>>

-----------------------------------------------------------------------------
(* Bounds of the model *)

\* the longest input word drawn over Alphabet
MaxWordLen == 3

\* the longest input text drawn over TextAlphabet
MaxTextLen == 3

-----------------------------------------------------------------------------
(* Python values *)

dict(f) == [type |-> "dict", items |-> f]
None == [type |-> "NoneType"]
list == [type |-> "list"]
EmptyStr == <<>>
EmptyMap == <<>>

\* the outcome of a call: a returned value or a raised exception
Return(v) == [raised |-> FALSE, value |-> v]
Raise(e) == [raised |-> TRUE, exc |-> e]

\* word.endswith(suffix)
endswith(word, suffix) ==
    /\ Len(suffix) <= Len(word)
    /\ SubSeq(word, Len(word) - Len(suffix) + 1, Len(word)) = suffix

\* word.startswith(prefix)
startswith(word, prefix) ==
    /\ Len(prefix) <= Len(word)
    /\ SubSeq(word, 1, Len(prefix)) = prefix

\* word[:-n] that cuts one code point too many
slice_to_minus_one_more(word, n) ==
    IF n = 0 THEN EmptyStr ELSE SubSeq(word, 1, Len(word) - n - 1)

\* word[:-n]; Python reads -0 as 0, so word[:-0] is word[:0], the empty string
slice_to_minus(word, n) ==
    IF n = 0 THEN EmptyStr ELSE SubSeq(word, 1, Len(word) - n)

\* word[n:]
slice_from(word, n) == SubSeq(word, n + 1, Len(word))

-----------------------------------------------------------------------------
(* The built-in tables *)

\* the feature maps of the built-in suffix rules
NounFeatures(g, n, c) == [category |-> "noun", gender |-> g, number |-> n, case |-> c]
HabitualFeatures(g, n) ==
    [category |-> "verb", tense |-> "present", aspect |-> "habitual", gender |-> g, number |-> n]
PerfectiveFeatures(g, n) ==
    [category |-> "verb", tense |-> "past", aspect |-> "perfective", gender |-> g, number |-> n]
FutureFeatures(g, n) ==
    [category |-> "verb", tense |-> "future", gender |-> g, number |-> n, person |-> "third"]

DefaultSuffixRules ==
       (<<"_aa">> :> NounFeatures("masculine", "singular", "direct"))
    @@ (<<"_e">> :> NounFeatures("masculine", "singular/plural", "oblique"))
    @@ (<<"_o", "_anusvara">> :> NounFeatures("masculine", "plural", "oblique"))
    @@ (<<"_ii">> :> NounFeatures("feminine", "singular", "direct"))
    @@ (<<"_i", "y", "_aa", "_candrabindu">> :> NounFeatures("feminine", "plural", "direct"))
    @@ (<<"_i", "y", "_o", "_anusvara">> :> NounFeatures("feminine", "plural", "oblique"))
    @@ (<<"n", "_aa">> :> [category |-> "verb", form |-> "infinitive"])
    @@ (<<"t", "_aa">> :> HabitualFeatures("masculine", "singular"))
    @@ (<<"t", "_ii">> :> HabitualFeatures("feminine", "singular"))
    @@ (<<"t", "_e">> :> HabitualFeatures("masculine", "plural"))
    @@ (<<"y", "_aa">> :> PerfectiveFeatures("masculine", "singular"))
    @@ (<<"II">> :> PerfectiveFeatures("feminine", "singular"))
    @@ (<<"E">> :> PerfectiveFeatures("masculine", "plural"))
    @@ (<<"g", "_aa">> :> FutureFeatures("masculine", "singular"))
    @@ (<<"g", "_ii">> :> FutureFeatures("feminine", "singular"))
    @@ (<<"g", "_e">> :> FutureFeatures("masculine", "plural"))

DefaultPrefixRules ==
       (<<"A">> :> [meaning |-> "negation", type |-> "negative"])
    @@ (<<"s", "_u">> :> [meaning |-> "good", type |-> "quality"])
    @@ (<<"d", "_u", "r", "_virama">> :> [meaning |-> "bad", type |-> "quality"])
    @@ (<<"p", "_u", "n", "r", "_virama">> :> [meaning |-> "again", type |-> "repetition"])

DefaultSandhiRules ==
       (<<"_aa", "A">> :> <<"_aa">>)
    @@ (<<"_i", "AA">> :> <<"_ii">>)
    @@ (<<"_u", "AA">> :> <<"_uu">>)

MinimalDictionary ==
       (<<"l", "dd", "_nukta", "k">> :> [category |-> "noun", meaning |-> "boy", gender |-> "masculine"])
    @@ (<<"l", "dd", "_nukta", "k", "_ii">> :> [category |-> "noun", meaning |-> "girl", gender |-> "feminine"])
    @@ (<<"k", "_i", "t", "_aa", "b">> :> [category |-> "noun", meaning |-> "book", gender |-> "feminine"])
    @@ (<<"gh", "r">> :> [category |-> "noun", meaning |-> "house", gender |-> "masculine"])
    @@ (<<"p", "ddh", "_nukta">> :> [category |-> "verb", meaning |-> "read"])
    @@ (<<"l", "_i", "kh">> :> [category |-> "verb", meaning |-> "write"])
    @@ (<<"kh", "_aa">> :> [category |-> "verb", meaning |-> "eat"])
    @@ (<<"j", "_aa">> :> [category |-> "verb", meaning |-> "go"])
    @@ (<<"k", "r">> :> [category |-> "verb", meaning |-> "do"])
    @@ (<<"A", "c", "_virama", "ch">> :> [category |-> "adjective", meaning |-> "good"])
    @@ (<<"b", "dd", "_nukta">> :> [category |-> "adjective", meaning |-> "big"])
    @@ (<<"ch", "_o", "tt">> :> [category |-> "adjective", meaning |-> "small"])

\* what the lexicon lookup answers for a root that is no key
UnknownRootInfo == [category |-> "unknown", meaning |-> "unknown"]

\* self as the constructor first sets it, before any table is filled
BlankAnalyzer ==
    [suffix_rules |-> dict(EmptyMap), prefix_rules |-> dict(EmptyMap),
     sandhi_rules |-> dict(EmptyMap), exceptions |-> dict(EmptyMap),
     dictionary |-> dict(EmptyMap)]

initialize_default_rules(self) ==
    [self EXCEPT !.suffix_rules = dict(DefaultSuffixRules),
                 !.prefix_rules = dict(DefaultPrefixRules),
                 !.sandhi_rules = dict(DefaultSandhiRules)]

initialize_minimal_dictionary(self) ==
    [self EXCEPT !.dictionary = dict(MinimalDictionary)]

-----------------------------------------------------------------------------
(* The affix stripper *)

\* normalize that drops every nukta sign
normalize_drops_nukta(word) == SelectSeq(word, LAMBDA c : c # "_nukta")

\* normalize(word): the identity
normalize(word) == word

\* plausible_root that accepts every candidate root
plausible_root_any(self, potential_root) == TRUE

\* the acceptance test of a candidate root: a lexicon key, or len() >= 2
plausible_root(self, potential_root) ==
    \/ potential_root \in DOMAIN self.dictionary.items
    \/ Len(potential_root) >= 2

\* The loop of extract_suffix over sorted(keys, key=len, reverse=True): `keys`
\* are the keys not yet tried, and the next one tried is a longest of them.
\* (Keys of equal length are tried in insertion order by the code; two
\* different keys of one length never both end the same word.)
\* suffix_loop with the keys tried shortest first (sorted without reverse=True)
RECURSIVE suffix_loop_shortest_first(_, _, _)
suffix_loop_shortest_first(self, word, keys) ==
    IF keys = {} THEN <<word, EmptyStr, EmptyMap>>
    ELSE LET suffix == CHOOSE k \in keys : \A j \in keys : Len(k) <= Len(j)
             potential_root == slice_to_minus(word, Len(suffix))
         IN  IF endswith(word, suffix) /\ plausible_root(self, potential_root)
             THEN <<potential_root, suffix, self.suffix_rules.items[suffix]>>
             ELSE suffix_loop_shortest_first(self, word, keys \ {suffix})

RECURSIVE suffix_loop(_, _, _)
suffix_loop(self, word, keys) ==
    IF keys = {} THEN <<word, EmptyStr, EmptyMap>>
    ELSE LET suffix == CHOOSE k \in keys : \A j \in keys : Len(j) <= Len(k)
             potential_root == slice_to_minus(word, Len(suffix))
         IN  IF endswith(word, suffix) /\ plausible_root(self, potential_root)
             THEN <<potential_root, suffix, self.suffix_rules.items[suffix]>>
             ELSE suffix_loop(self, word, keys \ {suffix})

\* extract_suffix that strips a second suffix from the root the first strip
\* left, and returns both suffixes as one
extract_suffix_repeated(self, word) ==
    LET first == suffix_loop(self, word, DOMAIN self.suffix_rules.items)
        second == suffix_loop(self, first[1], DOMAIN self.suffix_rules.items)
    IN  IF first[2] = EmptyStr \/ second[2] = EmptyStr THEN first
        ELSE <<second[1], second[2] \o first[2], first[3]>>

\* extract_suffix(word) -> (root, suffix, features)
extract_suffix(self, word) ==
    suffix_loop(self, word, DOMAIN self.suffix_rules.items)

\* prefix_loop that gives up at the first key that begins the word, instead of
\* going on to the shorter keys when the remainder is implausible
RECURSIVE prefix_loop_stops_at_match(_, _, _)
prefix_loop_stops_at_match(self, word, keys) ==
    IF keys = {} THEN <<word, EmptyStr, EmptyMap>>
    ELSE LET prefix == CHOOSE k \in keys : \A j \in keys : Len(j) <= Len(k)
             potential_root == slice_from(word, Len(prefix))
         IN  IF startswith(word, prefix)
             THEN IF plausible_root(self, potential_root)
                  THEN <<potential_root, prefix, self.prefix_rules.items[prefix]>>
                  ELSE <<word, EmptyStr, EmptyMap>>
             ELSE prefix_loop_stops_at_match(self, word, keys \ {prefix})

RECURSIVE prefix_loop(_, _, _)
prefix_loop(self, word, keys) ==
    IF keys = {} THEN <<word, EmptyStr, EmptyMap>>
    ELSE LET prefix == CHOOSE k \in keys : \A j \in keys : Len(j) <= Len(k)
             potential_root == slice_from(word, Len(prefix))
         IN  IF startswith(word, prefix) /\ plausible_root(self, potential_root)
             THEN <<potential_root, prefix, self.prefix_rules.items[prefix]>>
             ELSE prefix_loop(self, word, keys \ {prefix})

\* extract_prefix(word) -> (root, prefix, features)
extract_prefix(self, word) ==
    prefix_loop(self, word, DOMAIN self.prefix_rules.items)

-----------------------------------------------------------------------------
(* The sandhi resolver *)

\* One junction of the fold: `result` is the string fused so far and `part`
\* the next part.  result[-1] and part[0] raise IndexError on an empty string,
\* and `junction in self.sandhi_rules` raises TypeError when the table is None.
\* sandhi_step that drops the last code point of `result` at every junction,
\* rule or no rule
sandhi_step_always_cuts(self, result, part) ==
    IF result = EmptyStr \/ part = EmptyStr THEN Raise("IndexError")
    ELSE IF self.sandhi_rules.type # "dict" THEN Raise("TypeError")
    ELSE LET junction == <<result[Len(result)], part[1]>>
         IN  IF junction \in DOMAIN self.sandhi_rules.items
             THEN Return(slice_to_minus(result, 1)
                         \o self.sandhi_rules.items[junction]
                         \o slice_from(part, 1))
             ELSE Return(slice_to_minus(result, 1) \o part)

sandhi_step(self, result, part) ==
    IF result = EmptyStr \/ part = EmptyStr THEN Raise("IndexError")
    ELSE IF self.sandhi_rules.type # "dict" THEN Raise("TypeError")
    ELSE LET junction == <<result[Len(result)], part[1]>>
         IN  IF junction \in DOMAIN self.sandhi_rules.items
             THEN Return(slice_to_minus(result, 1)
                         \o self.sandhi_rules.items[junction]
                         \o slice_from(part, 1))
             ELSE Return(result \o part)

\* the loop `for i in range(1, len(parts))`, from the i-th part on
RECURSIVE sandhi_loop(_, _, _, _)
sandhi_loop(self, parts, i, result) ==
    IF i > Len(parts) THEN Return(result)
    ELSE LET step == sandhi_step(self, result, parts[i])
         IN  IF step.raised THEN step
             ELSE sandhi_loop(self, parts, i + 1, step.value)

\* apply_sandhi_rules(parts): fewer than two parts come back as they are
apply_sandhi_rules(self, parts) ==
    IF Len(parts) < 2 THEN Return(parts)
    ELSE sandhi_loop(self, parts, 2, parts[1])

-----------------------------------------------------------------------------
(* The analysis pipeline *)

\* root_after_prefix_sandhi that drops one code point less than the prefix has
root_after_prefix_sandhi_short(prefix, combined) ==
    slice_from(combined, Len(prefix) - 1)

\* the root after the prefix-root junction was fused
root_after_prefix_sandhi(prefix, combined) == slice_from(combined, Len(prefix))

\* root_after_suffix_sandhi that never corrects the root
root_after_suffix_sandhi_uncorrected(final_root, suffix, combined) == final_root

\* the root after the root-suffix junction was fused
root_after_suffix_sandhi(final_root, suffix, combined) ==
    IF combined # final_root \o suffix
    THEN slice_to_minus(combined, Len(suffix))
    ELSE final_root

\* sandhi_applied_flag that looks at the prefix alone
sandhi_applied_flag_prefix_only(prefix, suffix) == prefix # EmptyStr

\* `True if prefix or suffix else False`
sandhi_applied_flag(prefix, suffix) == prefix # EmptyStr \/ suffix # EmptyStr

\* lookup_root without the default record: dictionary.get(final_root, {})
lookup_root_empty_default(self, final_root) ==
    IF final_root \in DOMAIN self.dictionary.items
    THEN self.dictionary.items[final_root]
    ELSE EmptyMap

\* self.dictionary.get(final_root, {'category': 'unknown', 'meaning': 'unknown'})
lookup_root(self, final_root) ==
    IF final_root \in DOMAIN self.dictionary.items
    THEN self.dictionary.items[final_root]
    ELSE UnknownRootInfo

\* the record analyze assembles
analysis_record(self, word, normalized, final_root, suffix, suffix_features, prefix, prefix_features) ==
    [original |-> word,
     normalized |-> normalized,
     root |-> final_root,
     root_info |-> lookup_root(self, final_root),
     suffix |-> suffix,
     suffix_features |-> suffix_features,
     prefix |-> prefix,
     prefix_features |-> prefix_features,
     sandhi_applied |-> sandhi_applied_flag(prefix, suffix)]

\* analyze_suffix_junction that fuses whenever there is a suffix, without
\* `if final_root and`
analyze_suffix_junction_unguarded(self, word, normalized, final_root, suffix, suffix_features, prefix, prefix_features) ==
    IF suffix # EmptyStr
    THEN LET combined == apply_sandhi_rules(self, <<final_root, suffix>>)
         IN  IF combined.raised THEN combined
             ELSE Return(analysis_record(self, word, normalized,
                             root_after_suffix_sandhi(final_root, suffix, combined.value),
                             suffix, suffix_features, prefix, prefix_features))
    ELSE Return(analysis_record(self, word, normalized, final_root,
                                suffix, suffix_features, prefix, prefix_features))

\* analyze from the root-suffix junction on; final_root is the root that the
\* prefix step left
analyze_suffix_junction(self, word, normalized, final_root, suffix, suffix_features, prefix, prefix_features) ==
    IF final_root # EmptyStr /\ suffix # EmptyStr
    THEN LET combined == apply_sandhi_rules(self, <<final_root, suffix>>)
         IN  IF combined.raised THEN combined
             ELSE Return(analysis_record(self, word, normalized,
                             root_after_suffix_sandhi(final_root, suffix, combined.value),
                             suffix, suffix_features, prefix, prefix_features))
    ELSE Return(analysis_record(self, word, normalized, final_root,
                                suffix, suffix_features, prefix, prefix_features))

\* analyze from the prefix-root junction on (lines 211-241); s is what
\* extract_suffix returned and p what extract_prefix returned
analyze_junctions(self, word, normalized, s, p) ==
    LET suffix == s[2]
        suffix_features == s[3]
        prefix == p[2]
        prefix_features == p[3]
    IN  IF prefix # EmptyStr /\ p[1] # EmptyStr
        THEN LET combined == apply_sandhi_rules(self, <<prefix, p[1]>>)
             IN  IF combined.raised THEN combined
                 ELSE analyze_suffix_junction(self, word, normalized,
                          root_after_prefix_sandhi(prefix, combined.value),
                          suffix, suffix_features, prefix, prefix_features)
        ELSE analyze_suffix_junction(self, word, normalized, p[1],
                 suffix, suffix_features, prefix, prefix_features)

\* analyze after the exception check: normalize, strip, fuse, look up.
\* `.keys()` of a table that is None raises AttributeError.
analyze_by_rules(self, word) ==
    LET normalized == normalize(word)
    IN  IF self.suffix_rules.type # "dict" THEN Raise("AttributeError")
        ELSE
        LET s == extract_suffix(self, normalized)
            root_after_suffix == s[1]
        IN  IF self.prefix_rules.type # "dict" THEN Raise("AttributeError")
            ELSE analyze_junctions(self, word, normalized, s,
                                   extract_prefix(self, root_after_suffix))

\* analyze without the exception check
analyze_without_exceptions(self, word) == analyze_by_rules(self, word)

\* analyze(word); `word in self.exceptions` raises TypeError when the table is None
analyze(self, word) ==
    IF self.exceptions.type # "dict" THEN Raise("TypeError")
    ELSE IF word \in DOMAIN self.exceptions.items
         THEN Return(self.exceptions.items[word])
         ELSE analyze_by_rules(self, word)

\* self after an analyze that looks the root up with
\* self.dictionary.setdefault(final_root, {...}), which enters an unknown root
\* into the lexicon
after_analyze_setdefault(self, word) ==
    LET analysis == analyze(self, word)
    IN  IF \/ analysis.raised
           \/ word \in DOMAIN self.exceptions.items
           \/ analysis.value.root \in DOMAIN self.dictionary.items
        THEN self
        ELSE [self EXCEPT !.dictionary.items =
                              (analysis.value.root :> UnknownRootInfo) @@ @]

\* self after analyze(word) has run: analyze assigns to no attribute of self
\* and calls no mutating method of a table (it uses `in`, .keys(), [] and
\* .get only)
after_analyze(self, word) == self

-----------------------------------------------------------------------------
(* process_text *)

\* the characters str.split() splits on that the model's texts use
Whitespace == {" ", "\t", "\n"}

\* the character class of the re.sub in process_text
Punctuation ==
    {"danda", ",", ";", ".", "!", "?", "(", ")", "[", "]", "{", "}", ":", "\"", "'", "-"}

\* text.split(): the scan from the i-th character on; `word` is the token
\* being read and `words` the tokens read so far
RECURSIVE split_loop(_, _, _, _)
split_loop(text, i, word, words) ==
    LET closed == IF word = EmptyStr THEN words ELSE Append(words, word)
    IN  IF i > Len(text) THEN closed
        ELSE IF text[i] \in Whitespace
             THEN split_loop(text, i + 1, EmptyStr, closed)
             ELSE split_loop(text, i + 1, Append(word, text[i]), words)

split(text) == split_loop(text, 1, EmptyStr, <<>>)

NotPunctuation(c) == c \notin Punctuation

\* the re.sub that leaves the danda in the word
remove_punctuation_keeps_danda(word) ==
    LET NotAsciiPunctuation(c) == c \notin Punctuation \ {"danda"}
    IN  SelectSeq(word, NotAsciiPunctuation)

\* re.sub(r'[...]', '', word)
remove_punctuation(word) == SelectSeq(word, NotPunctuation)

\* the loop of process_text from the i-th token on; an exception of analyze
\* leaves the loop and process_text
RECURSIVE process_loop(_, _, _, _)
process_loop(self, words, i, results) ==
    IF i > Len(words) THEN [outcome |-> Return(results), self |-> self]
    ELSE LET clean_word == remove_punctuation(words[i])
         IN  IF clean_word = EmptyStr
             THEN process_loop(self, words, i + 1, results)
             ELSE LET analysis == analyze(self, clean_word)
                      then == after_analyze(self, clean_word)
                  IN  IF analysis.raised
                      THEN [outcome |-> analysis, self |-> then]
                      ELSE process_loop(then, words, i + 1,
                                        Append(results, analysis.value))

\* process_text(text): what it returns or raises, and self afterwards
process_text(self, text) == process_loop(self, split(text), 1, <<>>)

-----------------------------------------------------------------------------
(* JSON text and the rule file *)

\* JSON values.  A "leaf" is a JSON value that json.load turns into the very
\* Python value json.dump wrote (a string, or an object of strings): a feature
\* map, a sandhi replacement, a stored analysis record, a lexicon entry.
JNull == [json |-> "null"]
JArray == [json |-> "array"]
JLeaf(v) == [json |-> "leaf", py |-> v]
JObject(members) == [json |-> "object", members |-> members]
Member(name, value) == [name |-> name, value |-> value]

\* what a path holds: no file, text that is no JSON document, or a JSON document
NoFile == [kind |-> "absent"]
Garbage == [kind |-> "text", parses |-> FALSE]
JsonText(j) == [kind |-> "text", parses |-> TRUE, json |-> j]

\* json.load of a parsed value: an object becomes a dict in which the last
\* member of a repeated name wins
RECURSIVE json_load(_)
json_load(j) ==
    CASE j.json = "null" -> None
      [] j.json = "array" -> list
      [] j.json = "leaf" -> j.py
      [] j.json = "object" ->
            LET last(n) == CHOOSE i \in DOMAIN j.members :
                              /\ j.members[i].name = n
                              /\ \A k \in DOMAIN j.members :
                                    j.members[k].name = n => k <= i
            IN  dict([n \in {j.members[i].name : i \in DOMAIN j.members} |->
                         json_load(j.members[last(n)].value)])

\* the members json.dump writes for the items of a dict of leaves, one per key
\* (a dict has no repeated key)
RECURSIVE members_of(_)
members_of(items) ==
    IF DOMAIN items = {} THEN <<>>
    ELSE LET k == CHOOSE k \in DOMAIN items : TRUE
         IN  <<Member(k, JLeaf(items[k]))>>
             \o members_of([x \in DOMAIN items \ {k} |-> items[x]])

\* json.dump of one table
dump_table(table) ==
    CASE table.type = "NoneType" -> JNull
      [] table.type = "list" -> JArray
      [] table.type = "dict" -> JObject(members_of(table.items))

\* rules_document that leaves the sandhi table out
rules_document_without_sandhi(self) ==
    JObject(<<Member("suffix_rules", dump_table(self.suffix_rules)),
              Member("prefix_rules", dump_table(self.prefix_rules)),
              Member("exceptions", dump_table(self.exceptions))>>)

\* the document save_rules writes: the four tables under their section names
rules_document(self) ==
    JObject(<<Member("suffix_rules", dump_table(self.suffix_rules)),
              Member("prefix_rules", dump_table(self.prefix_rules)),
              Member("sandhi_rules", dump_table(self.sandhi_rules)),
              Member("exceptions", dump_table(self.exceptions))>>)

\* get_section that answers the built-in table for a missing section
get_section_or_builtin(rules_data, key) ==
    IF key \in DOMAIN rules_data.items THEN rules_data.items[key]
    ELSE CASE key = "suffix_rules" -> dict(DefaultSuffixRules)
           [] key = "prefix_rules" -> dict(DefaultPrefixRules)
           [] key = "sandhi_rules" -> dict(DefaultSandhiRules)
           [] key = "exceptions" -> dict(EmptyMap)

\* rules_data.get(key, {})
get_section(rules_data, key) ==
    IF key \in DOMAIN rules_data.items THEN rules_data.items[key] ELSE dict(EmptyMap)

\* assign_rules that validates each section and puts the built-in table in
\* place of a section that is no object
assign_rules_validating(self, rules_data) ==
    LET checked(key) ==
            IF get_section_or_builtin(rules_data, key).type = "dict"
            THEN get_section(rules_data, key)
            ELSE get_section_or_builtin([rules_data EXCEPT !.items = EmptyMap], key)
    IN  [self EXCEPT !.suffix_rules = checked("suffix_rules"),
                     !.prefix_rules = checked("prefix_rules"),
                     !.sandhi_rules = checked("sandhi_rules"),
                     !.exceptions = checked("exceptions")]

\* the four assignments of load_rules from a parsed document
assign_rules(self, rules_data) ==
    [self EXCEPT !.suffix_rules = get_section(rules_data, "suffix_rules"),
                 !.prefix_rules = get_section(rules_data, "prefix_rules"),
                 !.sandhi_rules = get_section(rules_data, "sandhi_rules"),
                 !.exceptions = get_section(rules_data, "exceptions")]

\* Does the try block of load_rules raise on this file?  open() raises on a
\* missing file, json.load on text that is no JSON, and rules_data.get on a
\* document that is no object; all of them before the first assignment.
load_raises(content) ==
    \/ content.kind = "absent"
    \/ ~content.parses
    \/ json_load(content.json).type # "dict"

\* load_rules(rules_path), on what the path holds
load_rules(self, content) ==
    IF load_raises(content)
    THEN initialize_default_rules(self)
    ELSE assign_rules(self, json_load(content.json))

\* The assignments of load_rules one at a time (nothing in load_rules makes
\* them one step: no lock is held and the attributes are assigned in turn).
\* The try block assigns four attributes (lines 41-44); when it raised,
\* initialize_default_rules assigns three (lines 52, 77, 85).
load_rules_assignments(content) ==
    IF load_raises(content)
    THEN <<"suffix_rules", "prefix_rules", "sandhi_rules">>
    ELSE <<"suffix_rules", "prefix_rules", "sandhi_rules", "exceptions">>

\* self after the k-th assignment of load_rules
load_rules_step(self, content, k) ==
    LET name == load_rules_assignments(content)[k]
        done == load_rules(self, content)
    IN  [self EXCEPT ![name] = done[name]]

\* load_dictionary that leaves the lexicon as it was when the load failed
load_dictionary_keeps_lexicon(self, content) ==
    IF content.kind = "absent" \/ ~content.parses
    THEN self
    ELSE [self EXCEPT !.dictionary = json_load(content.json)]

\* load_dictionary(dictionary_path), on what the path holds
load_dictionary(self, content) ==
    IF content.kind = "absent" \/ ~content.parses
    THEN initialize_minimal_dictionary(self)
    ELSE [self EXCEPT !.dictionary = json_load(content.json)]

\* What save_rules leaves on disk and returns, and self afterwards (it assigns
\* to no attribute of self).  `io` is what the file system
\* does: "written", "open_fails" (open raises, the old file stays) or
\* "write_fails" (the file was truncated by open and the dump broke off, so
\* it holds a proper prefix of the text, which is no JSON document).
\* save_rules whose handler falls back to the built-in rules, as the handler
\* of load_rules does
save_rules_resets_on_failure(self, old_content, io) ==
    CASE io = "written" ->
             [content |-> JsonText(rules_document(self)), ret |-> TRUE, self |-> self]
      [] io = "open_fails" ->
             [content |-> old_content, ret |-> FALSE, self |-> initialize_default_rules(self)]
      [] io = "write_fails" ->
             [content |-> Garbage, ret |-> FALSE, self |-> initialize_default_rules(self)]

save_rules(self, old_content, io) ==
    CASE io = "written" ->
             [content |-> JsonText(rules_document(self)), ret |-> TRUE, self |-> self]
      [] io = "open_fails" -> [content |-> old_content, ret |-> FALSE, self |-> self]
      [] io = "write_fails" -> [content |-> Garbage, ret |-> FALSE, self |-> self]

\* __init__(rules_path, dictionary_path): rules_file and dictionary_file are
\* what the two paths hold; no path given reads as NoFile (os.path.exists
\* is false either way)
construct(rules_file, dictionary_file) ==
    LET with_rules ==
            IF rules_file.kind # "absent"
            THEN load_rules(BlankAnalyzer, rules_file)
            ELSE initialize_default_rules(BlankAnalyzer)
    IN  IF dictionary_file.kind # "absent"
        THEN load_dictionary(with_rules, dictionary_file)
        ELSE initialize_minimal_dictionary(with_rules)

-----------------------------------------------------------------------------
(* The inputs the model draws from *)

\* the code points the drawn words are spelled with: LETTER A (a built-in
\* prefix), LETTER NA and VOWEL SIGN AA (the built-in suffixes "_aa" and
\* "n _aa")
Alphabet == {"A", "n", "_aa"}

RECURSIVE StringsOfLen(_)
StringsOfLen(n) ==
    IF n = 0 THEN {EmptyStr}
    ELSE {Append(w, c) : w \in StringsOfLen(n - 1), c \in Alphabet}

StringsUpTo(n) == UNION {StringsOfLen(k) : k \in 0..n}

\* words of the built-in evaluation data and of the built-in tables:
\* "ladka", "padhna", "kana", "khana", "suagat", "achchha"
ExampleWords ==
    {<<"l", "dd", "_nukta", "k", "_aa">>,
     <<"p", "ddh", "_nukta", "n", "_aa">>,
     <<"k", "_aa", "n", "_aa">>,
     <<"kh", "_aa", "n", "_aa">>,
     <<"s", "_u", "AA", "g", "t">>,
     <<"A", "c", "_virama", "ch", "_aa">>}

\* a word whose root the prefix-root junction uses up under the rules of the
\* rule file: "n A" + "_aa n" + "n", where "A" + "_aa" fuse to nothing
JunctionWords == {<<"n", "A", "_aa", "n", "n">>}

\* every root of the built-in lexicon followed by every built-in suffix
DefaultForms ==
    {r \o s : r \in DOMAIN MinimalDictionary, s \in DOMAIN DefaultSuffixRules}

Words == StringsUpTo(MaxWordLen) \cup ExampleWords \cup JunctionWords

\* the words analyze is called with
AnalyzedWords == Words \cup DefaultForms

\* the characters the drawn texts are written with: two code points of
\* words, the space and the danda
TextAlphabet == {"n", "_aa", " ", "danda"}

RECURSIVE TextsOfLen(_)
TextsOfLen(n) ==
    IF n = 0 THEN {EmptyStr}
    ELSE {Append(t, c) : t \in TextsOfLen(n - 1), c \in TextAlphabet}

\* "ladka padhna|" and "n_aa An|" (sentences closed by a danda), "_aan _aa
\* _aan" (a word, a shorter word that is the first without its last code
\* point, and the first word again), and a text
\* with the other kinds of white space and punctuation,
\* "(n-_aa)<tab>,<newline>An!"
ExampleTexts ==
    {<<"l", "dd", "_nukta", "k", "_aa", " ", "p", "ddh", "_nukta", "n", "_aa", "danda">>,
     <<"n", "_aa", " ", "A", "n", "danda">>,
     <<"_aa", "n", " ", "_aa", " ", "_aa", "n">>,
     <<"(", "n", "-", "_aa", ")", "\t", ",", "\n", "A", "n", "!">>}

Texts == UNION {TextsOfLen(k) : k \in 0..MaxTextLen} \cup ExampleTexts

\* the lists of parts handed to apply_sandhi_rules: at most two parts, or
\* three non-empty parts, which together spell a word of at most MaxWordLen
\* code points
PartLists ==
    {<<>>} \cup {<<a>> : a \in StringsUpTo(MaxWordLen)}
    \cup {p \in StringsUpTo(MaxWordLen) \X StringsUpTo(MaxWordLen) :
             Len(p[1]) + Len(p[2]) <= MaxWordLen}
    \cup {p \in StringsUpTo(MaxWordLen) \X StringsUpTo(MaxWordLen)
                                         \X StringsUpTo(MaxWordLen) :
             /\ \A i \in 1..3 : p[i] # EmptyStr
             /\ Len(p[1]) + Len(p[2]) + Len(p[3]) <= MaxWordLen}

\* The sections of the rule documents on disk, spelled with Alphabet.
FileSuffixRules ==
       (<<"n">> :> [category |-> "verb", form |-> "imperative"])
    @@ (<<"A", "n">> :> [category |-> "noun", number |-> "plural"])
    @@ (<<"_aa">> :> [category |-> "adjective", gender |-> "masculine"])

FilePrefixRules ==
       (<<"n">> :> [meaning |-> "without", type |-> "negative"])
    @@ (<<"n", "A">> :> [meaning |-> "new", type |-> "quality"])

\* replacements of two, one and no code points
FileSandhiRules ==
       (<<"_aa", "n">> :> <<"A", "n">>)
    @@ (<<"n", "A">> :> <<"_aa">>)
    @@ (<<"A", "_aa">> :> EmptyStr)

\* two stored records; the first has a suffix but sandhi_applied false
FileExceptions ==
       (<<"n", "_aa">> :>
            [original |-> <<"n", "_aa">>, normalized |-> <<"n", "_aa">>,
             root |-> <<"n">>, root_info |-> [category |-> "particle", meaning |-> "no"],
             suffix |-> <<"_aa">>, suffix_features |-> EmptyMap,
             prefix |-> EmptyStr, prefix_features |-> EmptyMap,
             sandhi_applied |-> FALSE])
    @@ (<<"A", "n">> :>
            [original |-> <<"A", "n">>, normalized |-> <<"A", "n">>,
             root |-> <<"A", "n">>, root_info |-> [category |-> "noun", meaning |-> "grain"],
             suffix |-> EmptyStr, suffix_features |-> EmptyMap,
             prefix |-> EmptyStr, prefix_features |-> EmptyMap,
             sandhi_applied |-> FALSE])

\* a lexicon file with roots of one and two code points
FileLexicon ==
       (<<"n">> :> [category |-> "particle", meaning |-> "not"])
    @@ (<<"n", "_aa">> :> [category |-> "particle", meaning |-> "no"])
    @@ (<<"A", "n">> :> [category |-> "noun", meaning |-> "grain", gender |-> "masculine"])

SectionNames == <<"suffix_rules", "prefix_rules", "sandhi_rules", "exceptions">>

FileSection(name) ==
    CASE name = "suffix_rules" -> FileSuffixRules
      [] name = "prefix_rules" -> FilePrefixRules
      [] name = "sandhi_rules" -> FileSandhiRules
      [] name = "exceptions" -> FileExceptions

\* the section `name` as a document spells it: a JSON object, or null
SectionValue(name, nulls) ==
    IF name \in nulls THEN JNull ELSE JObject(members_of(FileSection(name)))

\* the members of a document that holds the sections `present`, those of
\* `nulls` as null, from the i-th section name on
RECURSIVE DocumentMembers(_, _, _)
DocumentMembers(present, nulls, i) ==
    IF i > Len(SectionNames) THEN <<>>
    ELSE (IF SectionNames[i] \in present
          THEN <<Member(SectionNames[i], SectionValue(SectionNames[i], nulls))>>
          ELSE <<>>)
         \o DocumentMembers(present, nulls, i + 1)

AllSections == {SectionNames[i] : i \in DOMAIN SectionNames}

\* Rule files: every choice of sections present, each document whole but for
\* one null section, a document that repeats a section name (the later, empty
\* one wins), a document that is an array, text that is no JSON, and no file.
RuleFiles ==
    {JsonText(JObject(DocumentMembers(present, {}, 1))) : present \in SUBSET AllSections}
    \cup {JsonText(JObject(DocumentMembers(AllSections, {n}, 1))) : n \in AllSections}
    \cup {JsonText(JObject(DocumentMembers({"suffix_rules", "exceptions"}, {}, 1)
                           \o <<Member("suffix_rules", JObject(<<>>))>>)),
          JsonText(JArray), Garbage, NoFile}

\* Lexicon files: a JSON object of entries, text that is no JSON, no file
DictionaryFiles ==
    {JsonText(JObject(members_of(FileLexicon))), Garbage, NoFile}

Paths == {"rules.json"}

-----------------------------------------------------------------------------
(* The analyzer and its caller *)

\* self
this ==
    [suffix_rules |-> suffix_rules, prefix_rules |-> prefix_rules,
     sandhi_rules |-> sandhi_rules, exceptions |-> exceptions,
     dictionary |-> dictionary]

NoCall == [op |-> "none"]
NoOutcome == [raised |-> FALSE, value |-> "none"]
NoSave == [op |-> "none"]

\* no method is running on a second thread
NoThreads == [loader |-> [pc |-> "idle"], analyzer |-> [pc |-> "idle"]]

\* the caller has written into no result
NoWrite == [field |-> "none"]

Init ==
    /\ files \in [Paths -> RuleFiles]
    /\ \E rules_path \in Paths \cup {""}, dictionary_file \in DictionaryFiles :
          LET self == construct(IF rules_path = "" THEN NoFile ELSE files[rules_path],
                                dictionary_file)
          IN  /\ suffix_rules = self.suffix_rules
              /\ prefix_rules = self.prefix_rules
              /\ sandhi_rules = self.sandhi_rules
              /\ exceptions = self.exceptions
              /\ dictionary = self.dictionary
    /\ call = NoCall
    /\ outcome = NoOutcome
    /\ saved = NoSave
    /\ threads = NoThreads
    /\ written = NoWrite

\* the caller calls analyze(word); the call record keeps the tables as they
\* were
Analyze(word) ==
    /\ call = NoCall
    /\ call' = [op |-> "analyze", word |-> word, before |-> this]
    /\ outcome' = analyze(this, word)
    /\ \E self \in {after_analyze(this, word)} :
           /\ suffix_rules' = self.suffix_rules
           /\ prefix_rules' = self.prefix_rules
           /\ sandhi_rules' = self.sandhi_rules
           /\ exceptions' = self.exceptions
           /\ dictionary' = self.dictionary
    /\ saved' = NoSave
    /\ UNCHANGED files
    /\ UNCHANGED <<threads, written>>

\* the caller calls process_text(text)
ProcessText(text) ==
    /\ call = NoCall
    /\ call' = [op |-> "process_text", text |-> text, before |-> this]
    /\ \E done \in {process_text(this, text)} :
           /\ outcome' = done.outcome
           /\ suffix_rules' = done.self.suffix_rules
           /\ prefix_rules' = done.self.prefix_rules
           /\ sandhi_rules' = done.self.sandhi_rules
           /\ exceptions' = done.self.exceptions
           /\ dictionary' = done.self.dictionary
    /\ saved' = NoSave
    /\ UNCHANGED files
    /\ UNCHANGED <<threads, written>>

\* the caller calls extract_suffix(word)
ExtractSuffix(word) ==
    /\ call = NoCall
    /\ call' = [op |-> "extract_suffix", word |-> word]
    /\ outcome' = IF suffix_rules.type # "dict" THEN Raise("AttributeError")
                  ELSE Return(extract_suffix(this, word))
    /\ saved' = NoSave
    /\ UNCHANGED <<suffix_rules, prefix_rules, sandhi_rules, exceptions, dictionary, files>>
    /\ UNCHANGED <<threads, written>>

\* the caller calls extract_prefix(word)
ExtractPrefix(word) ==
    /\ call = NoCall
    /\ call' = [op |-> "extract_prefix", word |-> word]
    /\ outcome' = IF prefix_rules.type # "dict" THEN Raise("AttributeError")
                  ELSE Return(extract_prefix(this, word))
    /\ saved' = NoSave
    /\ UNCHANGED <<suffix_rules, prefix_rules, sandhi_rules, exceptions, dictionary, files>>
    /\ UNCHANGED <<threads, written>>

\* the caller calls apply_sandhi_rules(parts)
ApplySandhiRules(parts) ==
    /\ call = NoCall
    /\ call' = [op |-> "apply_sandhi_rules", parts |-> parts]
    /\ outcome' = apply_sandhi_rules(this, parts)
    /\ saved' = NoSave
    /\ UNCHANGED <<suffix_rules, prefix_rules, sandhi_rules, exceptions, dictionary, files>>
    /\ UNCHANGED <<threads, written>>

\* the caller calls load_rules(path); the call record keeps the file read,
\* the tables as they were, and the save_rules call, if any, made just before
LoadRules(path) ==
    /\ call = NoCall
    /\ LET self == load_rules(this, files[path])
       IN  /\ suffix_rules' = self.suffix_rules
           /\ prefix_rules' = self.prefix_rules
           /\ sandhi_rules' = self.sandhi_rules
           /\ exceptions' = self.exceptions
    /\ call' = [op |-> "load_rules", path |-> path, before |-> this, after_save |-> saved]
    /\ outcome' = Return(None)
    /\ saved' = NoSave
    /\ UNCHANGED <<dictionary, files>>
    /\ UNCHANGED <<threads, written>>

\* the caller calls load_dictionary on a path that holds `content`; the call
\* record keeps the file read and the tables as they were
LoadDictionary(content) ==
    /\ call = NoCall
    /\ dictionary' = load_dictionary(this, content).dictionary
    /\ call' = [op |-> "load_dictionary", content |-> content, before |-> this]
    /\ outcome' = Return(None)
    /\ saved' = NoSave
    /\ UNCHANGED <<suffix_rules, prefix_rules, sandhi_rules, exceptions, files>>
    /\ UNCHANGED <<threads, written>>

\* the caller calls save_rules(path); the file system does `io`.  The call
\* record keeps what the file system did, the file and the tables as they were.
SaveRules(path, io) ==
    /\ call = NoCall
    /\ \E done \in {save_rules(this, files[path], io)} :
           /\ files' = [files EXCEPT ![path] = done.content]
           /\ outcome' = Return(done.ret)
           /\ saved' = [op |-> "save_rules", path |-> path, ret |-> done.ret, self |-> this]
           /\ suffix_rules' = done.self.suffix_rules
           /\ prefix_rules' = done.self.prefix_rules
           /\ sandhi_rules' = done.self.sandhi_rules
           /\ exceptions' = done.self.exceptions
           /\ dictionary' = done.self.dictionary
    /\ call' = [op |-> "save_rules", path |-> path, io |-> io,
                old |-> files[path], before |-> this]
    /\ UNCHANGED <<threads, written>>

\* the caller takes what the call returned (or handles what it raised) and
\* is ready for its next call
CallerTakesResult ==
    /\ call # NoCall
    /\ call' = NoCall
    /\ outcome' = NoOutcome
    /\ UNCHANGED <<suffix_rules, prefix_rules, sandhi_rules, exceptions, dictionary,
                   files, saved>>
    /\ UNCHANGED <<threads, written>>

Next ==
    \/ \E word \in AnalyzedWords : Analyze(word)
    \/ \E text \in Texts : ProcessText(text)
    \/ \E word \in Words : ExtractSuffix(word)
    \/ \E word \in Words : ExtractPrefix(word)
    \/ \E parts \in PartLists : ApplySandhiRules(parts)
    \/ \E path \in Paths : LoadRules(path)
    \/ \E content \in DictionaryFiles : LoadDictionary(content)
    \/ \E path \in Paths, io \in {"written", "open_fails", "write_fails"} : SaveRules(path, io)
    \/ CallerTakesResult

Spec == Init /\ [][Next]_vars

-----------------------------------------------------------------------------
(* load_rules and analyze called on two threads of one analyzer.  The
   interpreter switches threads between two statements; each action below is
   one statement or a run of statements of one thread. *)

RuleTableNames == {"suffix_rules", "prefix_rules", "sandhi_rules", "exceptions"}

\* the four rule tables an analyzer holds, by attribute name
rule_set(self) == [name \in RuleTableNames |-> self[name]]

\* words the analyzing thread is given
ThreadWords == ExampleWords \cup JunctionWords \cup StringsOfLen(2)

\* the loading thread enters load_rules(path) and reads the file; `old` and
\* `new` are the rule set at this moment and the one the load will leave
LoadRulesBegins(path) ==
    /\ threads.loader.pc = "idle"
    /\ \E new \in {rule_set(load_rules(this, files[path]))} :
          threads' =
              [loader |-> [pc |-> "assigning", content |-> files[path], k |-> 1,
                           old |-> rule_set(this), new |-> new],
               analyzer |->
                   IF threads.analyzer.pc \in {"idle", "done"} THEN threads.analyzer
                   ELSE [threads.analyzer EXCEPT !.sets = @ \cup {new}]]
    /\ UNCHANGED <<suffix_rules, prefix_rules, sandhi_rules, exceptions, dictionary,
                   files, call, outcome, saved, written>>

\* the loading thread makes its next assignment; after the last one
\* load_rules returns
LoadRulesAssigns ==
    /\ threads.loader.pc = "assigning"
    /\ \E self \in {load_rules_step(this, threads.loader.content, threads.loader.k)} :
           /\ suffix_rules' = self.suffix_rules
           /\ prefix_rules' = self.prefix_rules
           /\ sandhi_rules' = self.sandhi_rules
           /\ exceptions' = self.exceptions
    /\ threads' =
           [threads EXCEPT !.loader =
               IF threads.loader.k = Len(load_rules_assignments(threads.loader.content))
               THEN [pc |-> "idle"]
               ELSE [@ EXCEPT !.k = @ + 1]]
    /\ UNCHANGED <<dictionary, files, call, outcome, saved, written>>

\* the analyzing thread enters analyze(word).  `sets` are the rule sets the
\* store holds as a whole while the call runs and `read` the tables the call
\* has read so far.
AnalyzeBegins(word) ==
    /\ threads.analyzer.pc = "idle"
    /\ threads' =
           [threads EXCEPT !.analyzer =
               [pc |-> "exceptions", word |-> word, read |-> <<>>,
                sets |-> IF threads.loader.pc = "idle" THEN {rule_set(this)}
                         ELSE {threads.loader.old, threads.loader.new}]]
    /\ UNCHANGED <<suffix_rules, prefix_rules, sandhi_rules, exceptions, dictionary,
                   files, call, outcome, saved, written>>

\* the analyzing thread has finished with `result`
finished(analyzer, result) ==
    [pc |-> "done", word |-> analyzer.word, read |-> analyzer.read,
     sets |-> analyzer.sets, outcome |-> result]

\* the analyzing thread after its next step on self: the exception check
\* (lines 198-199), extract_suffix (205), extract_prefix (208), the junctions
\* and the record (211-241)
analyze_step(self, analyzer) ==
    LET word == analyzer.word
        reading(name) == [analyzer EXCEPT !.read = (name :> self[name]) @@ @]
    IN  CASE analyzer.pc = "exceptions" ->
                 IF self.exceptions.type # "dict"
                 THEN finished(reading("exceptions"), Raise("TypeError"))
                 ELSE IF word \in DOMAIN self.exceptions.items
                 THEN finished(reading("exceptions"), Return(self.exceptions.items[word]))
                 ELSE [reading("exceptions") EXCEPT !.pc = "suffix"]
          [] analyzer.pc = "suffix" ->
                 IF self.suffix_rules.type # "dict"
                 THEN finished(reading("suffix_rules"), Raise("AttributeError"))
                 ELSE [pc |-> "prefix", word |-> word, sets |-> analyzer.sets,
                       read |-> reading("suffix_rules").read,
                       s |-> extract_suffix(self, normalize(word))]
          [] analyzer.pc = "prefix" ->
                 IF self.prefix_rules.type # "dict"
                 THEN finished(reading("prefix_rules"), Raise("AttributeError"))
                 ELSE [pc |-> "junctions", word |-> word, sets |-> analyzer.sets,
                       read |-> reading("prefix_rules").read,
                       s |-> analyzer.s,
                       p |-> extract_prefix(self, analyzer.s[1])]
          [] analyzer.pc = "junctions" ->
                 LET fused == \/ analyzer.p[2] # EmptyStr /\ analyzer.p[1] # EmptyStr
                              \/ analyzer.s[2] # EmptyStr
                 IN  finished(IF fused THEN reading("sandhi_rules") ELSE analyzer,
                              analyze_junctions(self, word, normalize(word),
                                                analyzer.s, analyzer.p))

\* the analyzing thread takes its next step
AnalyzeSteps ==
    /\ threads.analyzer.pc \in {"exceptions", "suffix", "prefix", "junctions"}
    /\ threads' = [threads EXCEPT !.analyzer = analyze_step(this, @)]
    /\ UNCHANGED <<suffix_rules, prefix_rules, sandhi_rules, exceptions, dictionary,
                   files, call, outcome, saved, written>>

\* the analyzing thread takes the result and is ready for its next call
AnalysisTaken ==
    /\ threads.analyzer.pc = "done"
    /\ threads' = [threads EXCEPT !.analyzer = [pc |-> "idle"]]
    /\ UNCHANGED <<suffix_rules, prefix_rules, sandhi_rules, exceptions, dictionary,
                   files, call, outcome, saved, written>>

NextThreads ==
    \/ \E path \in Paths : LoadRulesBegins(path)
    \/ LoadRulesAssigns
    \/ \E word \in ThreadWords : AnalyzeBegins(word)
    \/ AnalyzeSteps
    \/ AnalysisTaken

SpecThreads == Init /\ [][NextThreads]_vars

-----------------------------------------------------------------------------
(* The caller writes into a result that analyze returned.  A Python dict is
   an object: a dict that analyze took out of a table and put into its result
   is the table's own entry, and a write through the result is a write to
   the table. *)

\* the keys of a result the caller writes under: the three nested maps, and
\* "root" in the result itself
WrittenFields == {"suffix_features", "prefix_features", "root_info", "root"}

\* features['category'] = 'overwritten'
overwrite(features) == ("category" :> "overwritten") @@ features

\* result after result[field]['category'] = 'overwritten', or after
\* result['root'] = 'overwritten' when field is "root"
written_result(result, field) ==
    IF field = "root" THEN [result EXCEPT !.root = <<"overwritten">>]
    ELSE [result EXCEPT ![field] = overwrite(@)]

\* self after that write, where `result` is what analyze(word) returned:
\* line 199 returns the stored record of an exception itself; line 143 puts
\* self.suffix_rules[suffix] and line 163 self.prefix_rules[prefix] into the
\* result, and dictionary.get (line 226) the lexicon's entry; the {} of lines
\* 146 and 166, the default of line 226 and the record of line 229 are new
\* objects of the call
caller_writes(self, word, result, field) ==
    IF word \in DOMAIN self.exceptions.items
    THEN [self EXCEPT !.exceptions.items[word] = written_result(@, field)]
    ELSE CASE field = "suffix_features" /\ result.suffix # EmptyStr ->
                  [self EXCEPT !.suffix_rules.items[result.suffix] = overwrite(@)]
           [] field = "prefix_features" /\ result.prefix # EmptyStr ->
                  [self EXCEPT !.prefix_rules.items[result.prefix] = overwrite(@)]
           [] field = "root_info" /\ result.root \in DOMAIN self.dictionary.items ->
                  [self EXCEPT !.dictionary.items[result.root] = overwrite(@)]
           [] OTHER -> self

\* the caller writes into the result it was just given; it does so once
CallerWritesResult(field) ==
    /\ call.op = "analyze"
    /\ ~outcome.raised
    /\ written = NoWrite
    /\ \E self \in {caller_writes(this, call.word, outcome.value, field)} :
           /\ suffix_rules' = self.suffix_rules
           /\ prefix_rules' = self.prefix_rules
           /\ sandhi_rules' = self.sandhi_rules
           /\ exceptions' = self.exceptions
           /\ dictionary' = self.dictionary
    /\ outcome' = Return(written_result(outcome.value, field))
    /\ written' = [field |-> field, before |-> this]
    /\ UNCHANGED <<files, call, saved, threads>>

NextCaller ==
    \/ \E word \in AnalyzedWords : Analyze(word)
    \/ \E field \in WrittenFields : CallerWritesResult(field)
    \/ CallerTakesResult

SpecCaller == Init /\ [][NextCaller]_vars

-----------------------------------------------------------------------------
(* Properties *)

\* the call that has just returned did not raise
Returned(op) == call.op = op /\ ~outcome.raised

\* the analysis of a word that is no key of the exception table has returned
RuleAnalysisReturned ==
    /\ Returned("analyze")
    /\ call.word \notin DOMAIN exceptions.items

\* C1: analyze of a word that is a key of the exception table returns exactly
\* the record stored under it, whatever the rule tables and the lexicon hold.
ExceptionRecordReturned ==
    (/\ call.op = "analyze"
     /\ exceptions.type = "dict"
     /\ call.word \in DOMAIN exceptions.items)
    => outcome = Return(exceptions.items[call.word])

\* an exception word was analyzed whose end a suffix rule would have stripped
ExceptionWordWithSuffixAnalyzed ==
    /\ call.op = "analyze"
    /\ exceptions.type = "dict"
    /\ call.word \in DOMAIN exceptions.items
    /\ suffix_rules.type = "dict"
    /\ extract_suffix(this, call.word)[2] # EmptyStr
    /\ ~outcome.raised

\* the suffix keys that end the word of the extract_suffix call
MatchingSuffixes == {s \in DOMAIN suffix_rules.items : endswith(call.word, s)}

\* what is left of the word of the call without its last Len(s) code points
Remainder(s) == SubSeq(call.word, 1, Len(call.word) - Len(s))

\* a lexicon key, or a string of two or more code points
Plausible(r) == r \in DOMAIN dictionary.items \/ Len(r) >= 2

\* C2 as stated: if the suffix keys s1 and s2 both end the word and s1 is the
\* longer, extract_suffix never returns s2.
LongestMatchAlways ==
    Returned("extract_suffix") =>
        \A s1, s2 \in MatchingSuffixes :
            Len(s1) > Len(s2) => outcome.value[2] # s2

\* C2 amended: if the suffix keys s1 and s2 both end the word, s1 is the
\* longer, and what s1 leaves of the word is a lexicon key or has two or more
\* code points, extract_suffix never returns s2.
LongestPlausibleMatch ==
    Returned("extract_suffix") =>
        \A s1, s2 \in MatchingSuffixes :
            (Len(s1) > Len(s2) /\ Plausible(Remainder(s1))) => outcome.value[2] # s2

\* two suffix keys end the word and the longer one was returned
LongerOfTwoSuffixesReturned ==
    /\ Returned("extract_suffix")
    /\ \E s1, s2 \in MatchingSuffixes :
          /\ Len(s1) > Len(s2)
          /\ Plausible(Remainder(s1))
          /\ Plausible(Remainder(s2))
          /\ outcome.value[2] = s1

\* the combining code points: vowel signs and other dependent signs, which
\* belong to the grapheme cluster of the character before them
Marks ==
    {"_aa", "_i", "_ii", "_u", "_uu", "_e", "_o",
     "_anusvara", "_candrabindu", "_nukta", "_virama"}

\* the number of grapheme clusters of a string: a cluster starts at the first
\* code point and at every code point that is not a combining one
GraphemeClusters(w) == Cardinality({i \in DOMAIN w : i = 1 \/ w[i] \notin Marks})

\* C3: the root that extract_suffix or extract_prefix leaves after stripping an
\* affix is never a string of 0 or 1 grapheme clusters, unless that string is
\* a lexicon key.
StrippedRootHasTwoGraphemes ==
    (/\ Returned("extract_suffix") \/ Returned("extract_prefix")
     /\ outcome.value[2] # EmptyStr)
    => \/ outcome.value[1] \in DOMAIN dictionary.items
       \/ GraphemeClusters(outcome.value[1]) >= 2

\* C4 as stated: in every result analyze returns, sandhi_applied is true iff
\* the prefix or the suffix of the result is non-empty.
SandhiAppliedIffAffixAlways ==
    Returned("analyze") =>
        (outcome.value.sandhi_applied
            <=> (outcome.value.prefix # EmptyStr \/ outcome.value.suffix # EmptyStr))

\* C4 amended: in every result analyze returns for a word that is no key of
\* the exception table, sandhi_applied is true iff the prefix or the suffix of
\* the result is non-empty (a stored exception record is returned as it is).
SandhiAppliedIffAffix ==
    RuleAnalysisReturned =>
        (outcome.value.sandhi_applied
            <=> (outcome.value.prefix # EmptyStr \/ outcome.value.suffix # EmptyStr))

\* a suffix was stripped, no prefix, the root joins the suffix at a junction
\* without a sandhi rule, and sandhi_applied is true
SandhiAppliedWithoutSandhi ==
    /\ RuleAnalysisReturned
    /\ outcome.value.suffix # EmptyStr
    /\ outcome.value.prefix = EmptyStr
    /\ outcome.value.root \o outcome.value.suffix = call.word
    /\ outcome.value.sandhi_applied

\* the junction key of two non-empty parts
JunctionKey(a, b) == <<a[Len(a)], b[1]>>

\* the call was apply_sandhi_rules([a, b]) with a and b non-empty and a
\* sandhi table that has no rule for their junction
TwoPartsWithoutRule ==
    /\ call.op = "apply_sandhi_rules"
    /\ Len(call.parts) = 2
    /\ call.parts[1] # EmptyStr
    /\ call.parts[2] # EmptyStr
    /\ sandhi_rules.type = "dict"
    /\ JunctionKey(call.parts[1], call.parts[2]) \notin DOMAIN sandhi_rules.items

RuleTables(self) ==
    <<self.suffix_rules, self.prefix_rules, self.sandhi_rules, self.exceptions>>

\* the built-in default rule set
BuiltinRuleTables ==
    <<dict(DefaultSuffixRules), dict(DefaultPrefixRules), dict(DefaultSandhiRules),
      dict(EmptyMap)>>

\* load_rules(dest) has returned, called right after a save_rules(dest) that
\* returned True on an analyzer holding the built-in default rule set
DefaultsSavedThenLoaded ==
    /\ call.op = "load_rules"
    /\ call.after_save.op = "save_rules"
    /\ call.after_save.path = call.path
    /\ call.after_save.ret
    /\ RuleTables(call.after_save.self) = BuiltinRuleTables

\* C6: save_rules(dest) and then load_rules(dest), on an analyzer holding the
\* built-in default rule set, leaves the four tables as they were before the
\* save.
DefaultRulesRoundTrip ==
    DefaultsSavedThenLoaded => RuleTables(this) = RuleTables(call.after_save.self)

\* the round trip went through a file that held other rules before the save:
\* the analyzer was built on the defaults although the path held a document
RoundTripDone ==
    /\ DefaultsSavedThenLoaded
    /\ RuleTables(this) = BuiltinRuleTables
    /\ files[call.path] = JsonText(rules_document(this))

\* C7: after load_rules on a malformed or unreadable source the store holds
\* the built-in defaults in all four tables, the empty exception table among
\* them, whatever it held before.
FailedLoadLeavesDefaults ==
    (call.op = "load_rules" /\ load_raises(files[call.path]))
    => RuleTables(this) = BuiltinRuleTables

\* the members of the document that load_rules read
LoadedMembers == files[call.path].json.members

SectionPresent(name) == \E i \in DOMAIN LoadedMembers : LoadedMembers[i].name = name

\* the value the document gives the section: that of its last member of the name
SectionJson(name) ==
    LET i == CHOOSE i \in DOMAIN LoadedMembers :
                /\ LoadedMembers[i].name = name
                /\ \A k \in DOMAIN LoadedMembers : LoadedMembers[k].name = name => k <= i
    IN  LoadedMembers[i].value

\* the table that a section of the rule document fills
TableOf(name) ==
    CASE name = "suffix_rules" -> suffix_rules
      [] name = "prefix_rules" -> prefix_rules
      [] name = "sandhi_rules" -> sandhi_rules
      [] name = "exceptions" -> exceptions

BuiltinTable(name) ==
    CASE name = "suffix_rules" -> dict(DefaultSuffixRules)
      [] name = "prefix_rules" -> dict(DefaultPrefixRules)
      [] name = "sandhi_rules" -> dict(DefaultSandhiRules)
      [] name = "exceptions" -> dict(EmptyMap)

\* load_rules has returned from a file that holds a JSON object
ObjectLoaded ==
    /\ call.op = "load_rules"
    /\ files[call.path].kind = "text"
    /\ files[call.path].parses
    /\ files[call.path].json.json = "object"

\* C8: load_rules on a well-formed document (every section it has is an
\* object) that lacks one or more of the four sections empties the table of
\* each missing section and gives the table of each present section the
\* document's value; no table falls back to its built-in default.
MissingSectionsLoadEmpty ==
    (/\ ObjectLoaded
     /\ \E name \in AllSections : ~SectionPresent(name)
     /\ \A name \in AllSections : SectionPresent(name) => SectionJson(name).json = "object")
    => \A name \in AllSections :
          TableOf(name) = IF SectionPresent(name)
                          THEN json_load(SectionJson(name))
                          ELSE dict(EmptyMap)

\* a document without prefix and sandhi sections was loaded over the built-in
\* tables: both tables are empty now, the suffix table is the document's
MissingSectionsLoaded ==
    /\ ObjectLoaded
    /\ ~SectionPresent("prefix_rules")
    /\ ~SectionPresent("sandhi_rules")
    /\ SectionPresent("suffix_rules")
    /\ call.before.prefix_rules = dict(DefaultPrefixRules)
    /\ call.before.sandhi_rules = dict(DefaultSandhiRules)
    /\ prefix_rules = dict(EmptyMap)
    /\ sandhi_rules = dict(EmptyMap)
    /\ suffix_rules = dict(FileSuffixRules)

RootInfoIsLexiconEntryOrUnknown ==
    RuleAnalysisReturned =>
        outcome.value.root_info =
            IF outcome.value.root \in DOMAIN dictionary.items
            THEN dictionary.items[outcome.value.root]
            ELSE [category |-> "unknown", meaning |-> "unknown"]

\* a root that sandhi corrected (it is not the word without its affixes) was
\* looked up and is no lexicon key
CorrectedRootLookedUp ==
    /\ RuleAnalysisReturned
    /\ outcome.value.prefix \o outcome.value.root \o outcome.value.suffix # call.word
    /\ outcome.value.root \notin DOMAIN dictionary.items
    /\ outcome.value.root_info = [category |-> "unknown", meaning |-> "unknown"]

WellFormedTables ==
    \A table \in {suffix_rules, prefix_rules, sandhi_rules, exceptions, dictionary} :
        table.type = "dict"

AnalysisFields ==
    {"original", "normalized", "root", "root_info", "suffix", "suffix_features",
     "prefix", "prefix_features", "sandhi_applied"}

\* C12: with five well-formed tables, analyze of any word (the empty word and
\* one-character words included) returns without raising, so the sandhi
\* resolver met no empty part and no index was out of range; for a word that
\* is no exception what it returns is a result record.
AnalysisIsTotal ==
    (call.op = "analyze" /\ WellFormedTables)
        => /\ ~outcome.raised
           /\ call.word \notin DOMAIN exceptions.items
                  => DOMAIN outcome.value = AnalysisFields

\* a word was analyzed whose root a sandhi rule with an empty replacement used
\* up at the prefix junction: the suffix junction had an empty root beside a
\* suffix
EmptyRootBesideSuffixAnalyzed ==
    /\ RuleAnalysisReturned
    /\ WellFormedTables
    /\ call.word \in JunctionWords
    /\ outcome.value.root = EmptyStr
    /\ outcome.value.prefix # EmptyStr
    /\ outcome.value.suffix # EmptyStr

\* the prefix keys that begin the word of the call
MatchingPrefixes == {p \in DOMAIN prefix_rules.items : startswith(call.word, p)}

\* what is left of the word of the call without its first Len(p) code points
Rest(p) == SubSeq(call.word, Len(p) + 1, Len(call.word))

\* the word of the analyze call is no exception and no lexicon key, and no
\* suffix key and no prefix key matches it with a plausible remainder
PlainWordAnalyzed ==
    /\ call.op = "analyze"
    /\ WellFormedTables
    /\ call.word \notin DOMAIN exceptions.items
    /\ call.word \notin DOMAIN dictionary.items
    /\ \A s \in MatchingSuffixes : ~Plausible(Remainder(s))
    /\ \A p \in MatchingPrefixes : ~Plausible(Rest(p))

\* C13: a word (the empty word included) that is no exception and no lexicon
\* key, and that no suffix key and no prefix key matches with a plausible
\* remainder, is returned whole: root = the word, no prefix, no suffix, empty
\* feature maps, category unknown and sandhi_applied false.
PlainWordReturnedWhole ==
    PlainWordAnalyzed =>
        /\ ~outcome.raised
        /\ outcome.value.original = call.word
        /\ outcome.value.root = call.word
        /\ outcome.value.prefix = EmptyStr
        /\ outcome.value.suffix = EmptyStr
        /\ outcome.value.suffix_features = EmptyMap
        /\ outcome.value.prefix_features = EmptyMap
        /\ outcome.value.root_info.category = "unknown"
        /\ outcome.value.sandhi_applied = FALSE

\* a word that ends in a suffix key, but with a remainder too short to be a
\* root, was returned whole
WordWithImplausibleSuffixReturnedWhole ==
    /\ PlainWordAnalyzed
    /\ ~outcome.raised
    /\ MatchingSuffixes # {}
    /\ outcome.value.root = call.word
    /\ outcome.value.suffix = EmptyStr

\* the positions of the text of the call where a token begins: a character
\* that is no white space, at the start or after white space
TokenStarts ==
    {i \in 1..Len(call.text) :
        /\ call.text[i] \notin Whitespace
        /\ i = 1 \/ call.text[i - 1] \in Whitespace}

\* the token that begins at i: the characters up to the next white space
Token(i) ==
    LET rest == {j \in i..Len(call.text) : call.text[j] \in Whitespace}
        end == IF rest = {} THEN Len(call.text)
               ELSE (CHOOSE j \in rest : \A k \in rest : j <= k) - 1
    IN  SubSeq(call.text, i, end)

\* the token without its characters of the punctuation set
Cleaned(i) ==
    LET Kept(c) == c \notin Punctuation
    IN  SelectSeq(Token(i), Kept)

\* the tokens that are not empty once cleaned, in the order of the text
Surviving == {i \in TokenStarts : Cleaned(i) # EmptyStr}
SurvivingToken(k) ==
    Cleaned(CHOOSE i \in Surviving : Cardinality({j \in Surviving : j <= i}) = k)

\* C14: process_text(text) returns the analyses of the tokens of the text
\* (split on white space), each without its characters of the punctuation
\* set, the tokens that became empty dropped, in the order of the text; if
\* analyze raises for one of them, process_text raises.
ProcessTextAnalyzesCleanedTokens ==
    call.op = "process_text" =>
        LET n == Cardinality(Surviving)
        IN  IF \E k \in 1..n : analyze(call.before, SurvivingToken(k)).raised
            THEN outcome.raised
            ELSE outcome =
                     Return([k \in 1..n |-> analyze(call.before, SurvivingToken(k)).value])

\* a two-word text whose second word ends in a danda gave exactly two
\* results, and the second is the analysis of the word without the danda
SentenceWithDandaProcessed ==
    /\ Returned("process_text")
    /\ Len(call.text) >= 2
    /\ call.text[Len(call.text)] = "danda"
    /\ call.text[Len(call.text) - 1] \notin Whitespace \cup Punctuation
    /\ Cardinality(TokenStarts) = 2
    /\ Len(outcome.value) = 2
    /\ outcome.value[2].original = SubSeq(Token(CHOOSE i \in TokenStarts : i > 1),
                                          1, Len(Token(CHOOSE i \in TokenStarts : i > 1)) - 1)

\* analyze(word) was called on an analyzer that holds the built-in rule
\* tables and the built-in minimal lexicon
AnalyzedWithDefaults(word) ==
    /\ call.op = "analyze"
    /\ call.word = word
    /\ RuleTables(this) = BuiltinRuleTables
    /\ dictionary = dict(MinimalDictionary)

Ladka == <<"l", "dd", "_nukta", "k", "_aa">>
Padhna == <<"p", "ddh", "_nukta", "n", "_aa">>

\* C15: with the built-in rules and lexicon, analyze("ladka") returns suffix
\* "_aa" with the features noun, masculine, singular, direct; no prefix; root
\* "ladk"; root_info with category noun and meaning boy; sandhi_applied true.
LadkaAnalysis ==
    AnalyzedWithDefaults(Ladka) =>
        /\ ~outcome.raised
        /\ outcome.value.suffix = <<"_aa">>
        /\ outcome.value.suffix_features =
               [category |-> "noun", gender |-> "masculine",
                number |-> "singular", case |-> "direct"]
        /\ outcome.value.prefix = EmptyStr
        /\ outcome.value.root = <<"l", "dd", "_nukta", "k">>
        /\ outcome.value.root_info.category = "noun"
        /\ outcome.value.root_info.meaning = "boy"
        /\ outcome.value.sandhi_applied = TRUE

\* "ladka" was analyzed with the built-in rules and lexicon
LadkaAnalyzed == AnalyzedWithDefaults(Ladka) /\ ~outcome.raised

\* C16: with the built-in rules and lexicon, analyze("padhna") returns suffix
\* "n _aa" (the two-character suffix, not "_aa") with the features verb,
\* infinitive; no prefix; root "padh"; root_info with category verb and
\* meaning read.
PadhnaAnalysis ==
    AnalyzedWithDefaults(Padhna) =>
        /\ ~outcome.raised
        /\ outcome.value.suffix = <<"n", "_aa">>
        /\ outcome.value.suffix_features = [category |-> "verb", form |-> "infinitive"]
        /\ outcome.value.prefix = EmptyStr
        /\ outcome.value.root = <<"p", "ddh", "_nukta">>
        /\ outcome.value.root_info.category = "verb"
        /\ outcome.value.root_info.meaning = "read"

\* "padhna" was analyzed with the built-in rules and lexicon, and both "_aa"
\* and "n _aa" are suffix keys that end it
PadhnaAnalyzed ==
    /\ AnalyzedWithDefaults(Padhna)
    /\ ~outcome.raised
    /\ {<<"_aa">>, <<"n", "_aa">>} \subseteq MatchingSuffixes

\* the file of the save_rules call holds a JSON object with exactly the four
\* sections, each of which reads back as the table in memory
FourTablesWritten ==
    /\ files[call.path].kind = "text"
    /\ files[call.path].parses
    /\ LET doc == json_load(files[call.path].json)
       IN  /\ doc.type = "dict"
           /\ DOMAIN doc.items = {SectionNames[i] : i \in DOMAIN SectionNames}
           /\ \A name \in DOMAIN doc.items : doc.items[name] = TableOf(name)

\* C17: save_rules never raises; it returns True when the file was written,
\* and the file then holds the four tables; it returns False when open or the
\* write failed, and the file is then as it was or as the one broken attempt
\* left it; either way the five tables in memory are as before the call.
SaveRulesReportsOutcome ==
    call.op = "save_rules" =>
        /\ ~outcome.raised
        /\ this = call.before
        /\ call.io = "written" => outcome.value = TRUE /\ FourTablesWritten
        /\ call.io # "written" =>
               /\ outcome.value = FALSE
               /\ files[call.path] \in {call.old, Garbage}

\* a save of tables read from a rule file failed at the write and returned
\* False, leaving a truncated file
FailedSaveReported ==
    /\ Returned("save_rules")
    /\ call.io = "write_fails"
    /\ call.old # Garbage
    /\ outcome.value = FALSE
    /\ files[call.path] = Garbage
    /\ suffix_rules = dict(FileSuffixRules)

\* C18 as stated: an analyze call that runs beside a load_rules call on a
\* second thread reads its tables from one rule set: all from a rule set the
\* store held before a load, or all from the rule set a load leaves.
AnalysisSeesOneRuleSet ==
    threads.analyzer.pc = "done" =>
        \E set \in threads.analyzer.sets :
            \A name \in DOMAIN threads.analyzer.read :
                threads.analyzer.read[name] = set[name]

\* C19 as stated: once analyze has returned, a write of the caller into the
\* result (into one of its nested maps, or into the result of an exception
\* word) changes none of the five tables.
CallerWritesLeaveTablesAlone ==
    written # NoWrite => this = written.before

\* C20: analyze and process_text leave the five tables as they were, and a
\* word that process_text meets again, after whatever other words, is given
\* a result equal to its first one.
AnalysisLeavesTablesAlone ==
    /\ call.op \in {"analyze", "process_text"} => this = call.before
    /\ Returned("process_text") =>
           \A i, j \in 1..Len(outcome.value) :
               SurvivingToken(i) = SurvivingToken(j) => outcome.value[i] = outcome.value[j]

\* a text was processed in which a word comes back after a shorter word that
\* is the first without a suffix key, and the three results were returned
WordAnalyzedAgainAfterAnother ==
    /\ Returned("process_text")
    /\ Len(outcome.value) = 3
    /\ SurvivingToken(1) = SurvivingToken(3)
    /\ \E s \in DOMAIN suffix_rules.items :
           SurvivingToken(1) = SurvivingToken(2) \o s
    /\ outcome.value[2].root = SurvivingToken(2)
    /\ outcome.value[2].root_info = UnknownRootInfo
    /\ outcome.value[3] = outcome.value[1]

\* the word of the analyze call without the suffix of the result
WithoutSuffix == SubSeq(call.word, 1, Len(call.word) - Len(outcome.value.suffix))

\* the word of the analyze call without the suffix and the prefix of the
\* result: the root candidate
RootCandidate ==
    SubSeq(call.word, Len(outcome.value.prefix) + 1,
           Len(call.word) - Len(outcome.value.suffix))

\* the sandhi table has a rule for the junction of a and b
JunctionHasRule(a, b) ==
    /\ a # EmptyStr
    /\ b # EmptyStr
    /\ JunctionKey(a, b) \in DOMAIN sandhi_rules.items

\* C21: for a word that is no exception, the suffix of the result is '' or a
\* suffix key that ends the word, the prefix is '' or a prefix key that
\* begins the word without that suffix, the two do not overlap, and nothing
\* more is stripped: unless a sandhi rule applies at a junction, the root is
\* the word without that one suffix and that one prefix, even when it ends
\* with another suffix key or begins with another prefix key.
SinglePassStripping ==
    RuleAnalysisReturned =>
        /\ \/ outcome.value.suffix = EmptyStr
           \/ /\ outcome.value.suffix \in DOMAIN suffix_rules.items
              /\ endswith(call.word, outcome.value.suffix)
        /\ \/ outcome.value.prefix = EmptyStr
           \/ /\ outcome.value.prefix \in DOMAIN prefix_rules.items
              /\ startswith(WithoutSuffix, outcome.value.prefix)
        /\ Len(outcome.value.prefix) + Len(outcome.value.suffix) <= Len(call.word)
        /\ (/\ ~JunctionHasRule(outcome.value.prefix, RootCandidate)
            /\ ~JunctionHasRule(RootCandidate, outcome.value.suffix))
               => outcome.value.root = RootCandidate

\* a suffix was stripped and the root left ends with a suffix key that could
\* have been stripped in a second pass
SecondSuffixLeftOnRoot ==
    /\ RuleAnalysisReturned
    /\ outcome.value.suffix # EmptyStr
    /\ outcome.value.root = RootCandidate
    /\ \E s \in DOMAIN suffix_rules.items :
          /\ endswith(outcome.value.root, s)
          /\ Plausible(SubSeq(outcome.value.root, 1, Len(outcome.value.root) - Len(s)))

\* the left-to-right fold of the first n parts of the apply_sandhi_rules
\* call: the junction key is the last code point of what is fused so far and
\* the first of the next part; with a rule for it, what is fused so far loses
\* its last code point, the replacement follows, and then the next part
\* without its first code point; without one, the next part follows as it is
RECURSIVE Fused(_)
Fused(n) ==
    IF n = 1 THEN call.parts[1]
    ELSE LET so_far == Fused(n - 1)
             next == call.parts[n]
         IN  IF JunctionHasRule(so_far, next)
             THEN SubSeq(so_far, 1, Len(so_far) - 1)
                  \o sandhi_rules.items[JunctionKey(so_far, next)]
                  \o SubSeq(next, 2, Len(next))
             ELSE so_far \o next

\* apply_sandhi_rules was called with a sandhi table that is a dict and
\* parts that are all non-empty
NonEmptyPartsFused ==
    /\ call.op = "apply_sandhi_rules"
    /\ sandhi_rules.type = "dict"
    /\ \A i \in DOMAIN call.parts : call.parts[i] # EmptyStr

FusedEmptyBeforeAPart ==
    \E n \in 1..(Len(call.parts) - 1) : Fused(n) = EmptyStr

FusedPair(a, b) ==
    IF JunctionHasRule(a, b)
    THEN SubSeq(a, 1, Len(a) - 1) \o sandhi_rules.items[JunctionKey(a, b)]
         \o SubSeq(b, 2, Len(b))
    ELSE a \o b

\* the root carried forward from the prefix step: the fused string of the
\* prefix and the root candidate without its first len(prefix) code points
\* when both are non-empty, and the root candidate otherwise
CarriedRoot ==
    IF outcome.value.prefix # EmptyStr /\ RootCandidate # EmptyStr
    THEN LET fused == FusedPair(outcome.value.prefix, RootCandidate)
         IN  SubSeq(fused, Len(outcome.value.prefix) + 1, Len(fused))
    ELSE RootCandidate

\* C23: when analyze found a prefix and a non-empty root candidate, the
\* prefix of the result is the prefix key that was matched, rule or no rule
\* at the junction, and the root carried forward (the root of the result,
\* when the suffix junction has no rule to apply) is the fused string of
\* prefix and root candidate without its first len(prefix) code points.
PrefixSandhiCorrectsRootOnly ==
    (/\ RuleAnalysisReturned
     /\ outcome.value.prefix # EmptyStr
     /\ RootCandidate # EmptyStr)
        => /\ outcome.value.prefix \in DOMAIN prefix_rules.items
           /\ startswith(WithoutSuffix, outcome.value.prefix)
           /\ ~JunctionHasRule(CarriedRoot, outcome.value.suffix)
                  => outcome.value.root = CarriedRoot

\* a rule fired at the prefix-root junction: the root of the result is not
\* the root candidate, and the prefix is still the key that begins the word
PrefixJunctionFused ==
    /\ RuleAnalysisReturned
    /\ outcome.value.suffix = EmptyStr
    /\ JunctionHasRule(outcome.value.prefix, RootCandidate)
    /\ startswith(call.word, outcome.value.prefix)
    /\ outcome.value.root = CarriedRoot
    /\ outcome.value.root # RootCandidate

\* C24: when analyze has a non-empty root (corrected or not) and a suffix,
\* the root of the result is the fused string of root and suffix without its
\* last len(suffix) code points if the fused string differs from root +
\* suffix, and the root as it was otherwise; the suffix of the result is the
\* suffix key that was matched.
SuffixSandhiCorrectsRoot ==
    (/\ RuleAnalysisReturned
     /\ CarriedRoot # EmptyStr
     /\ outcome.value.suffix # EmptyStr)
        => /\ outcome.value.suffix \in DOMAIN suffix_rules.items
           /\ endswith(call.word, outcome.value.suffix)
           /\ LET fused == FusedPair(CarriedRoot, outcome.value.suffix)
              IN  outcome.value.root =
                      IF fused # CarriedRoot \o outcome.value.suffix
                      THEN SubSeq(fused, 1, Len(fused) - Len(outcome.value.suffix))
                      ELSE CarriedRoot

\* a rule fired at the root-suffix junction and changed the string: the root
\* of the result is not the root carried forward
SuffixJunctionFused ==
    /\ RuleAnalysisReturned
    /\ CarriedRoot # EmptyStr
    /\ JunctionHasRule(CarriedRoot, outcome.value.suffix)
    /\ outcome.value.root # CarriedRoot
    /\ endswith(call.word, outcome.value.suffix)

\* the analyzed word is a root of the built-in lexicon followed by a built-in
\* suffix, and the rule tables and the lexicon are the built-in ones
DefaultFormAnalyzed(r, s) ==
    /\ r \in DOMAIN MinimalDictionary
    /\ s \in DOMAIN DefaultSuffixRules
    /\ AnalyzedWithDefaults(r \o s)


\* C25: with the built-in rules and lexicon, analyze(r + s) of a lexicon root
\* r and a suffix key s returns root r and the lexicon entry of r as
\* root_info.
DefaultFormsAnalyzedToRoot ==
    \A r \in DOMAIN MinimalDictionary : \A s \in DOMAIN DefaultSuffixRules :
        DefaultFormAnalyzed(r, s) =>
            /\ ~outcome.raised
            /\ outcome.value.root = r
            /\ outcome.value.root_info = MinimalDictionary[r]

\* the matching suffix keys, and the matching prefix keys, that leave a
\* plausible remainder of the word of the call
PlausibleSuffixes == {s \in MatchingSuffixes : Plausible(Remainder(s))}
PlausiblePrefixes == {p \in MatchingPrefixes : Plausible(Rest(p))}

\* C26: extract_suffix returns the longest matching suffix key whose remainder
\* is a lexicon key or has two or more code points, with that remainder and
\* the table's entry of that key, and returns (word, "", {}) exactly when no
\* matching key leaves such a remainder; extract_prefix does the same with
\* the prefix keys at the start of the word.
LongestPlausibleKeyReturned ==
    /\ Returned("extract_suffix") =>
           IF PlausibleSuffixes = {}
           THEN outcome.value = <<call.word, EmptyStr, EmptyMap>>
           ELSE /\ outcome.value # <<call.word, EmptyStr, EmptyMap>>
                /\ \E s \in PlausibleSuffixes :
                      /\ \A t \in PlausibleSuffixes : Len(t) <= Len(s)
                      /\ outcome.value = <<Remainder(s), s, suffix_rules.items[s]>>
    /\ Returned("extract_prefix") =>
           IF PlausiblePrefixes = {}
           THEN outcome.value = <<call.word, EmptyStr, EmptyMap>>
           ELSE /\ outcome.value # <<call.word, EmptyStr, EmptyMap>>
                /\ \E p \in PlausiblePrefixes :
                      /\ \A t \in PlausiblePrefixes : Len(t) <= Len(p)
                      /\ outcome.value = <<Rest(p), p, prefix_rules.items[p]>>

\* a longer prefix key begins the word but leaves an implausible remainder,
\* and the shorter key tried after it was returned
LongerPrefixSkipped ==
    /\ Returned("extract_prefix")
    /\ outcome.value[2] # EmptyStr
    /\ \E p \in MatchingPrefixes :
          /\ Len(p) > Len(outcome.value[2])
          /\ ~Plausible(Rest(p))

\* C27: for a word that is no exception, if the junction of prefix and root
\* candidate and the junction of root candidate and suffix are no keys of the
\* sandhi table, then prefix + root + suffix of the result is the normalized
\* word, which is the original word, which is the word analyze was given.
AffixesAndRootRebuildWord ==
    (/\ RuleAnalysisReturned
     /\ ~JunctionHasRule(outcome.value.prefix, RootCandidate)
     /\ ~JunctionHasRule(RootCandidate, outcome.value.suffix))
        => /\ outcome.value.prefix \o outcome.value.root \o outcome.value.suffix
                  = outcome.value.normalized
           /\ outcome.value.normalized = outcome.value.original
           /\ outcome.value.original = call.word

\* a prefix and a suffix were stripped with a sandhi table that has rules,
\* none of them for either junction, and the three parts rebuild the word
WordRebuiltFromThreeParts ==
    /\ RuleAnalysisReturned
    /\ outcome.value.prefix # EmptyStr
    /\ outcome.value.suffix # EmptyStr
    /\ outcome.value.root # EmptyStr
    /\ DOMAIN sandhi_rules.items # {}
    /\ ~JunctionHasRule(outcome.value.prefix, RootCandidate)
    /\ ~JunctionHasRule(RootCandidate, outcome.value.suffix)
    /\ outcome.value.prefix \o outcome.value.root \o outcome.value.suffix = call.word

====
